---- MODULE Spec2Model ----
(***************************************************************************)
(* Model of SparkAnalysisPython/QQP/text_classification_qqp.py: the QQP    *)
(* loader (load_qqp_data), the FastText vectoriser and classifier          *)
(* (train_fasttext) and the benchmark driver (main).                       *)
(*                                                                         *)
(* A string is a sequence of one-character strings, so that lower(),       *)
(* split(), concat_ws(), cast("double") and float() are computed rather    *)
(* than assumed.  A Spark cell is a record [type, val]: a null, a string   *)
(* (as read from the TSV file, which is read without schema inference) or  *)
(* a double (after cast("double"), lit(0.0) or astype(float)), whose val   *)
(* is the text that names the double.                                      *)
(***************************************************************************)
EXTENDS Integers, Sequences, FiniteSets, TLC

VARIABLES
    \* one call of load_qqp_data(file_path, is_test)
    ld_source, ld_is_test, ld_result,
    \* one call of text_to_vector(text, model)
    vz_text, vz_model, vz_result,
    \* a run of main(): the position in it, the two files of args, the
    \* locals of main and of train_fasttext, and the clock time.time() reads
    pc, error, data_file, test_file, train_data, test_data, results,
    now, start_time, fit_end, training_time,
    train_pandas, test_pandas, train_sentences, fasttext_model,
    X_train, y_train, X_test, y_test, ft_metrics

ld_vars == << ld_source, ld_is_test, ld_result >>
vz_vars == << vz_text, vz_model, vz_result >>
main_vars ==
    << pc, error, data_file, test_file, train_data, test_data, results,
       now, start_time, fit_end, training_time,
       train_pandas, test_pandas, train_sentences, fasttext_model,
       X_train, y_train, X_test, y_test, ft_metrics >>
vars == << ld_vars, vz_vars, main_vars >>

(***************************************************************************)
(* Bounds of the model.                                                    *)
(***************************************************************************)
\* most rows in a TSV source handed to load_qqp_data
MaxRows == 2
\* most characters in a text handed to text_to_vector on its own
MaxTextLen == 3
\* most clock ticks one step of train_fasttext takes
MaxTick == 1

(***************************************************************************)
(* Constants of the program.                                               *)
(***************************************************************************)
\* FastText(..., vector_size=100, ...)
vector_size == 100
\* FastText(...) is built without bucket, min_n and max_n: gensim's defaults
bucket == 2000000
min_n == 3
max_n == 6

(***************************************************************************)
(* Characters.  Chars[i] is the character with code point i, for the code  *)
(* points 1 to 255; the grave accent, code point 96, is no character a     *)
(* string of this module can hold and has the token "BACKTICK" in its      *)
(* place.                                                                  *)
(***************************************************************************)
Chars ==
    << "", "", "", "", "", "", "", "",
       "\t", "\n", "", "\f", "\r", "", "", "",
       "", "", "", "", "", "", "", "",
       "", "", "", "", "", "", "", " ",
       "!", "\"", "#", "$", "%", "&", "'", "(",
       ")", "*", "+", ",", "-", ".", "/", "0",
       "1", "2", "3", "4", "5", "6", "7", "8",
       "9", ":", ";", "<", "=", ">", "?", "@",
       "A", "B", "C", "D", "E", "F", "G", "H",
       "I", "J", "K", "L", "M", "N", "O", "P",
       "Q", "R", "S", "T", "U", "V", "W", "X",
       "Y", "Z", "[", "\\", "]", "^", "_", "BACKTICK",
       "a", "b", "c", "d", "e", "f", "g", "h",
       "i", "j", "k", "l", "m", "n", "o", "p",
       "q", "r", "s", "t", "u", "v", "w", "x",
       "y", "z", "{", "|", "}", "~", "", "",
       "", "", "", "", "", "", "", "",
       "", "", "", "", "", "", "", "",
       "", "", "", "", "", "", "", "",
       "", "", "", "", "", "", "", " ",
       "¡", "¢", "£", "¤", "¥", "¦", "§", "¨",
       "©", "ª", "«", "¬", "­", "®", "¯", "°",
       "±", "²", "³", "´", "µ", "¶", "·", "¸",
       "¹", "º", "»", "¼", "½", "¾", "¿", "À",
       "Á", "Â", "Ã", "Ä", "Å", "Æ", "Ç", "È",
       "É", "Ê", "Ë", "Ì", "Í", "Î", "Ï", "Ð",
       "Ñ", "Ò", "Ó", "Ô", "Õ", "Ö", "×", "Ø",
       "Ù", "Ú", "Û", "Ü", "Ý", "Þ", "ß", "à",
       "á", "â", "ã", "ä", "å", "æ", "ç", "è",
       "é", "ê", "ë", "ì", "í", "î", "ï", "ð",
       "ñ", "ò", "ó", "ô", "õ", "ö", "÷", "ø",
       "ù", "ú", "û", "ü", "ý", "þ", "ÿ" >>

OrdTable == [c \in {Chars[i] : i \in DOMAIN Chars} |-> CHOOSE i \in DOMAIN Chars : Chars[i] = c]

\* ord(c) and chr(i)
Ord(c) == OrdTable[c]
Chr(i) == Chars[i]

Max(a, b) == IF a > b THEN a ELSE b
SetMin(S) == CHOOSE x \in S : \A y \in S : x <= y
SetMax(S) == CHOOSE x \in S : \A y \in S : x >= y
Range(s) == {s[i] : i \in DOMAIN s}

\* the element of a set of one element: Only({e(v) : v \in {x}}) is e(x),
\* with x worked out once
Only(S) == CHOOSE x \in S : TRUE

IsDigit(c) == Ord(c) \in 48..57
IsHexDigit(c) == Ord(c) \in (48..57) \cup (65..70) \cup (97..102)
DigitVal(c) == Ord(c) - 48
HexVal(c) ==
    LET Val(o) == IF o <= 57 THEN o - 48 ELSE IF o <= 70 THEN o - 55 ELSE o - 87
    IN  Val(Ord(c))

\* the ASCII letters of s in lower case, every other character as it is
AsciiLower(s) ==
    LET Lower(c, o) == IF o \in 65..90 THEN Chr(o + 32) ELSE c
    IN  [i \in DOMAIN s |-> Lower(s[i], Ord(s[i]))]

\* s without the characters at its two ends whose code points are in `blank`
Strip(s, blank) ==
    LET Cut(keep) == IF keep = {} THEN << >> ELSE SubSeq(s, SetMin(keep), SetMax(keep))
    IN  Cut({i \in DOMAIN s : Ord(s[i]) \notin blank})

\* the index after the longest run of digits of s that starts at index i
SpanDigits(s, i) ==
    LET First(stops) == IF stops = {} THEN Max(i, Len(s) + 1) ELSE SetMin(stops)
    IN  First({j \in i..Len(s) : ~IsDigit(s[j])})

SpanHexDigits(s, i) ==
    LET First(stops) == IF stops = {} THEN Max(i, Len(s) + 1) ELSE SetMin(stops)
    IN  First({j \in i..Len(s) : ~IsHexDigit(s[j])})

(***************************************************************************)
(* Whole numbers of any size: a sequence of limbs in 0..9999, the most     *)
(* significant first, the number being the limbs read to the base 10000;   *)
(* no limb of 0 leads, and zero is << 0 >>.                                *)
(***************************************************************************)
BigTrim(a) ==
    LET From(nz) == IF nz = {} THEN << 0 >> ELSE SubSeq(a, SetMin(nz), Len(a))
    IN  From({i \in DOMAIN a : a[i] # 0})

\* the carries of v, whose entries may be negative or above 9999, passed on
\* until every entry is a limb
RECURSIVE Carried(_)
Carried(v) ==
    LET Pass(w) == [i \in DOMAIN w |->
                       (w[i] % 10000) +
                       (IF i < Len(w) THEN w[i + 1] \div 10000 ELSE 0)]
    IN  IF \A i \in DOMAIN v : v[i] \in 0..9999 THEN v
        ELSE Carried(Pass(<< 0 >> \o v))

BigNorm(v) == BigTrim(Carried(v))

\* the limb of a at place i of n, when a is set flush right in n places
LimbAt(a, n, i) == IF i > n - Len(a) THEN a[i - (n - Len(a))] ELSE 0

BigAdd(a, b) ==
    LET Places(n) == [i \in 1..n |-> LimbAt(a, n, i) + LimbAt(b, n, i)]
    IN  BigNorm(Places(Max(Len(a), Len(b))))

\* a - b, for a >= b
BigSub(a, b) ==
    LET Places(n) == [i \in 1..n |-> LimbAt(a, n, i) - LimbAt(b, n, i)]
    IN  BigNorm(Places(Max(Len(a), Len(b))))

\* a * k, for a whole number k up to 2^17
BigMulSmall(a, k) == BigNorm([i \in DOMAIN a |-> a[i] * k])

\* a divided by 2, rounded down
BigHalf(a) ==
    BigTrim([i \in DOMAIN a |->
                (a[i] \div 2) + (IF i > 1 /\ a[i - 1] % 2 = 1 THEN 5000 ELSE 0)])

\* -1, 0 or 1 as a is less than, equal to or greater than b
BigCmp(a, b) ==
    LET At(diff) == IF diff = {} THEN 0
                    ELSE IF a[SetMin(diff)] < b[SetMin(diff)] THEN -1
                    ELSE 1
    IN  IF Len(a) < Len(b) THEN -1
        ELSE IF Len(a) > Len(b) THEN 1
        ELSE At({i \in DOMAIN a : a[i] # b[i]})

\* a * 10000^n
BigShiftLimbs(a, n) == BigTrim(a \o [i \in 1..n |-> 0])

\* a * 10^n
BigShift10(a, n) == BigShiftLimbs(BigMulSmall(a, 10 ^ (n % 4)), n \div 4)

\* a * 2^n, 64 or 16 doublings at a time; each product is worked out
\* before the next step is taken
RECURSIVE BigMulPow2(_, _)
BigMulPow2(a, n) ==
    LET Go(b, m) == IF Len(b) > 0 THEN BigMulPow2(b, m) ELSE b
    IN  IF n > 64
        THEN Go(BigMulSmall(BigMulSmall(BigMulSmall(BigMulSmall(
                    a, 65536), 65536), 65536), 65536), n - 64)
        ELSE IF n > 16 THEN Go(BigMulSmall(a, 65536), n - 16)
        ELSE BigMulSmall(a, 2 ^ n)

\* the greatest d in lo..hi with d * t <= r, and what is left of r: r - d * t
RECURSIVE Quot(_, _, _, _)
Quot(r, t, lo, hi) ==
    IF lo = hi THEN [d |-> lo, rest |-> BigSub(r, BigMulSmall(t, lo))]
    ELSE IF BigCmp(BigMulSmall(t, (lo + hi + 1) \div 2), r) <= 0
    THEN Quot(r, t, (lo + hi + 1) \div 2, hi)
    ELSE Quot(r, t, lo, (lo + hi + 1) \div 2 - 1)

\* the limbs of the quotient of r by t from place j down, and the remainder
RECURSIVE DivLimbs(_, _, _, _)
DivLimbs(r, t, j, q) ==
    LET Go(step) == IF Len(step.rest) > 0
                    THEN DivLimbs(step.rest, t, j - 1, Append(q, step.d))
                    ELSE [q |-> q, r |-> step.rest]
    IN  IF j < 0 THEN [q |-> BigTrim(q), r |-> r]
        ELSE Go(Quot(r, BigShiftLimbs(t, j), 0, 9999))

\* quotient and remainder of a by t, for t > 0
BigDivMod(a, t) == DivLimbs(a, t, Max(0, Len(a) - Len(t)), << >>)

\* the whole number a run of digit characters spells
DigitsOf(s) ==
    LET D(p) == IF p >= 1 THEN DigitVal(s[p]) ELSE 0
        Limb(lo) == [p \in 0..3 |-> D(lo - p)]
        Value(l) == l[3] * 1000 + l[2] * 100 + l[1] * 10 + l[0]
        Limbs(n, m) == [i \in 1..m |-> Value(Limb(n - 4 * (m - i)))]
    IN  BigTrim(Limbs(Len(s), (Len(s) + 3) \div 4))

\* the whole number a run of hexadecimal digit characters spells
RECURSIVE HexFrom(_, _, _)
HexFrom(s, i, acc) ==
    LET Go(b) == IF Len(b) > 0 THEN HexFrom(s, i + 1, b) ELSE b
    IN  IF i > Len(s) THEN acc
        ELSE Go(BigAdd(BigMulSmall(acc, 16), << HexVal(s[i]) >>))

HexDigitsOf(s) == HexFrom(s, 1, << 0 >>)

\* the digit characters of a whole number
DigitChars(a) ==
    LET From(all, first) ==
            [k \in 1..(Len(all) - first + 1) |-> Chr(48 + all[k + first - 1])]
        First(all, nz) == From(all, IF nz = {} THEN Len(all) ELSE SetMin(nz))
        Digits(all) == First(all, {k \in DOMAIN all : all[k] # 0})
    IN  Digits([k \in 1..(4 * Len(a)) |->
                   (a[(k + 3) \div 4] \div (10 ^ (3 - ((k - 1) % 4)))) % 10])

\* how many decimal digits a whole number has
DigitCount(a) == Len(DigitChars(a))

\* 2^63 and 2^53
TwoTo63 == << 922, 3372, 368, 5477, 5808 >>
TwoTo53 == << 9007, 1992, 5474, 992 >>

(***************************************************************************)
(* Doubles.  A double is held as the text that names it: "NaN",            *)
(* "Infinity", "-Infinity", "0.0", "-0.0"; a whole number below 2^63 in    *)
(* size as its digits and ".0" ("1.0", "-3.0"); any other double as m, "p" *)
(* and e ("1p-1" is 0.5), where the double is m * 2^e and m is odd.  Each  *)
(* double has one text, and a string read as a double is rounded to the    *)
(* nearest double, ties to the even one, as Java and Python round.         *)
(***************************************************************************)
NaNText == << "N", "a", "N" >>
InfText == << "I", "n", "f", "i", "n", "i", "t", "y" >>
ZeroText == << "0", ".", "0" >>
OneText == << "1", ".", "0" >>

\* what a parser gives for a string that names no double
NoDouble == << >>

Signed(neg, t) == IF neg THEN << "-" >> \o t ELSE t

IntText(n) ==
    IF n < 0 THEN << "-" >> \o DigitChars(BigNorm(<< -n >>))
    ELSE DigitChars(BigNorm(<< n >>))

\* q * 2^e as m * 2^e' with m odd, for q > 0
RECURSIVE OddPart(_, _)
OddPart(q, e) ==
    LET Go(h, e2) == IF Len(h) > 0 THEN OddPart(h, e2) ELSE [m |-> h, e |-> e2]
    IN  IF q[Len(q)] % 16 = 0
        THEN Go(BigHalf(BigHalf(BigHalf(BigHalf(q)))), e + 4)
        ELSE IF q[Len(q)] % 2 = 0 THEN Go(BigHalf(q), e + 1)
        ELSE [m |-> q, e |-> e]

\* the text of the double m * 2^e, for m odd
OddText(neg, o) ==
    IF /\ o.e >= 0
       /\ o.e <= 63
       /\ \/ BigCmp(BigMulPow2(o.m, o.e), TwoTo63) < 0
          \/ neg /\ o.m = << 1 >> /\ o.e = 63
    THEN Signed(neg, DigitChars(BigMulPow2(o.m, o.e)) \o << ".", "0" >>)
    ELSE Signed(neg, DigitChars(o.m) \o << "p" >> \o IntText(o.e))

\* the text of the double q * 2^e, for q > 0
FiniteText(neg, q, e) == OddText(neg, OddPart(q, e))

\* the greatest of 16, 4 and 1 with t * 2^k not above n, or 0
StepDown(n, t) ==
    IF BigCmp(n, BigMulSmall(t, 65536)) >= 0 THEN 16
    ELSE IF BigCmp(n, BigMulSmall(t, 16)) >= 0 THEN 4
    ELSE IF BigCmp(n, t) >= 0 THEN 1
    ELSE 0

\* r.n / r.t is brought below 1 by doubling r.t; r.e counts the doublings
RECURSIVE ScaleDown(_)
ScaleDown(r) ==
    LET Go(t2, k) == IF Len(t2) > 0
                     THEN ScaleDown([n |-> r.n, t |-> t2, e |-> r.e + k])
                     ELSE r
        Step(k) == IF k = 0 THEN r ELSE Go(BigMulSmall(r.t, 2 ^ k), k)
    IN  Step(StepDown(r.n, r.t))

\* the greatest of 16, 4 and 1 with n * 2^k below t, or 0
StepUp(n, t) ==
    IF BigCmp(BigMulSmall(n, 65536), t) < 0 THEN 16
    ELSE IF BigCmp(BigMulSmall(n, 16), t) < 0 THEN 4
    ELSE IF BigCmp(BigMulSmall(n, 2), t) < 0 THEN 1
    ELSE 0

\* r.n / r.t, below 1, is brought to at least 1/2 by doubling r.n
RECURSIVE ScaleUp(_)
ScaleUp(r) ==
    LET Go(n2, k) == IF Len(n2) > 0
                     THEN ScaleUp([n |-> n2, t |-> r.t, e |-> r.e - k])
                     ELSE r
        Step(k) == IF k = 0 THEN r ELSE Go(BigMulSmall(r.n, 2 ^ k), k)
    IN  Step(StepUp(r.n, r.t))

\* the same in one stride as far as the lengths of n and t tell: a limb is
\* more than 13 bits
Stride(n, t) ==
    LET gap == Len(n) - Len(t)
        k == IF gap >= 2 THEN 13 * (gap - 1)
             ELSE IF gap <= -2 THEN 13 * (-gap - 1)
             ELSE 0
    IN  [n |-> IF gap <= -2 THEN BigMulPow2(n, k) ELSE n,
         t |-> IF gap >= 2 THEN BigMulPow2(t, k) ELSE t,
         e |-> IF gap >= 2 THEN k ELSE -k]

\* n / t rounded to a whole number, a half going to the even neighbour
BigDivRound(n, t) ==
    Only({ LET half == BigCmp(BigMulSmall(dm.r, 2), t)
           IN  IF half > 0 \/ (half = 0 /\ dm.q[Len(dm.q)] % 2 = 1)
               THEN BigAdd(dm.q, << 1 >>)
               ELSE dm.q
           : dm \in {BigDivMod(n, t)} })

\* the text of the double q * 2^e for a q of at most 53 bits, or 2^53: above
\* the greatest double there is infinity
RoundedText(neg, q, e) ==
    IF q = << 0 >> THEN Signed(neg, ZeroText)
    ELSE IF e > 971 \/ (e = 971 /\ q = TwoTo53) THEN Signed(neg, InfText)
    ELSE FiniteText(neg, q, e)

\* the double nearest to (n / d) * 2^b, for n > 0 and d > 0: 53 bits of
\* n / d, fewer below 2^-1022 (at most 64 bits are given up, which leaves
\* nothing), the rest rounded half to even
RoundRatio(neg, n, d, b) ==
    Only({ RoundedText(neg,
                       BigDivRound(BigMulPow2(up.n, 53),
                                   BigMulPow2(up.t, Max(0, -1074 - Max(up.e + b, -1138)))),
                       Max(up.e + b, -1074))
           : up \in {ScaleUp(ScaleDown(Stride(n, BigMulPow2(d, 53))))} })

\* the double nearest to digits * 10^exp10; a whole number of at most 15
\* digits, being below 2^53, is a double itself
ToDoubleDec(neg, digits, exp10) ==
    IF digits = << 0 >> THEN Signed(neg, ZeroText)
    ELSE IF exp10 >= 0 /\ DigitCount(digits) + exp10 <= 15
    THEN FiniteText(neg, BigShift10(digits, exp10), 0)
    ELSE IF DigitCount(digits) + exp10 > 310 THEN Signed(neg, InfText)
    ELSE IF DigitCount(digits) + exp10 < -330 THEN Signed(neg, ZeroText)
    ELSE RoundRatio(neg,
                    BigShift10(digits, Max(exp10, 0)),
                    BigShift10(<< 1 >>, Max(-exp10, 0)),
                    0)

\* the double nearest to digits * 2^exp2
ToDoubleBin(neg, digits, exp2) ==
    IF digits = << 0 >> THEN Signed(neg, ZeroText)
    ELSE IF 3 * (DigitCount(digits) - 1) + exp2 > 1030 THEN Signed(neg, InfText)
    ELSE IF 4 * DigitCount(digits) + exp2 < -1080 THEN Signed(neg, ZeroText)
    ELSE RoundRatio(neg, digits, << 1 >>, exp2)

\* the number a run of digits spells, held at a million
SmallValue(s) ==
    LET Held(a) == IF Len(a) > 2 \/ (Len(a) = 2 /\ a[1] >= 100) THEN 1000000
                   ELSE IF Len(a) = 2 THEN a[1] * 10000 + a[2]
                   ELSE a[1]
    IN  Held(DigitsOf(s))

\* the exponent that follows the letter at index i of s: a sign or none,
\* then digits, of which there has to be one
ExpAt(s, i) ==
    LET signed == i + 1 <= Len(s) /\ s[i + 1] \in {"+", "-"}
        j == IF signed THEN i + 2 ELSE i + 1
    IN  Only({ [ok |-> k > j,
                val |-> (IF signed /\ s[i + 1] = "-" THEN -1 ELSE 1)
                            * SmallValue(SubSeq(s, j, k - 1)),
                next |-> k]
               : k \in {SpanDigits(s, j)} })

\* the parts of an unsigned literal whose digits start at index `from`:
\* the digits before and after the point (hexadecimal ones if hex), and the
\* exponent after one of the letters of `marks`, if there is one
LiteralParts(t, from, hex, marks) ==
    LET Span(i) == IF hex THEN SpanHexDigits(t, i) ELSE SpanDigits(t, i)
        NoExp(i) == [ok |-> TRUE, val |-> 0, next |-> i]
    IN  Only({ Only({ Only({
            [whole |-> SubSeq(t, from, i1 - 1),
             frac |-> SubSeq(t, i1 + 1, i2 - 1),
             point |-> i2 > i1,
             hasExp |-> ex.next > i2,
             expOk |-> ex.ok,
             exp |-> ex.val,
             end |-> ex.next]
            : ex \in {IF i2 <= Len(t) /\ t[i2] \in marks THEN ExpAt(t, i2)
                      ELSE NoExp(i2)} })
            : i2 \in {IF i1 <= Len(t) /\ t[i1] = "." THEN Span(i1 + 1) ELSE i1} })
            : i1 \in {Span(from)} })

\* an unsigned decimal literal: digits with or without a point, at least one
\* digit, an exponent or none, and (for Java) one of f, F, d, D or nothing
DecimalLiteral(t, neg, suffix) ==
    Only({ IF /\ Len(p.whole) + Len(p.frac) > 0
              /\ p.expOk
              /\ \/ p.end > Len(t)
                 \/ suffix /\ p.end = Len(t) /\ t[p.end] \in {"f", "F", "d", "D"}
           THEN ToDoubleDec(neg, DigitsOf(p.whole \o p.frac), p.exp - Len(p.frac))
           ELSE NoDouble
           : p \in {LiteralParts(t, 1, FALSE, {"e", "E"})} })

\* Java's hexadecimal literal, after its sign: 0x, hexadecimal digits with or
\* without a point, p and a decimal exponent, one of f, F, d, D or nothing
HexLiteral(t, neg) ==
    Only({ IF /\ Len(p.whole) + Len(p.frac) > 0
              /\ (~p.point => Len(p.whole) > 0)
              /\ p.hasExp /\ p.expOk
              /\ \/ p.end > Len(t)
                 \/ p.end = Len(t) /\ t[p.end] \in {"f", "F", "d", "D"}
           THEN ToDoubleBin(neg, HexDigitsOf(p.whole \o p.frac), p.exp - 4 * Len(p.frac))
           ELSE NoDouble
           : p \in {LiteralParts(t, 3, TRUE, {"p", "P"})} })

\* a string without its sign, and whether the sign is a minus
SignOf(t) ==
    [neg |-> t # << >> /\ t[1] = "-",
     rest |-> IF t # << >> /\ t[1] \in {"+", "-"} THEN Tail(t) ELSE t]

\* the characters String.trim() removes: those up to the space
JavaBlank == 1..32

\* java.lang.Double.parseDouble(s), NoDouble for NumberFormatException
JavaParseDouble(s) ==
    Only({ IF u.rest = << >> THEN NoDouble
           ELSE IF u.rest[1] = "N"
           THEN (IF u.rest = NaNText THEN NaNText ELSE NoDouble)
           ELSE IF u.rest[1] = "I"
           THEN (IF u.rest = InfText THEN Signed(u.neg, InfText) ELSE NoDouble)
           ELSE IF Len(u.rest) > 1 /\ u.rest[1] = "0" /\ u.rest[2] \in {"x", "X"}
           THEN HexLiteral(u.rest, u.neg)
           ELSE DecimalLiteral(u.rest, u.neg, TRUE)
           : u \in {SignOf(Strip(s, JavaBlank))} })

\* Spark's Cast.processFloatingPointSpecialLiterals(s, false), tried when
\* parseDouble has thrown
SparkSpecialLiteral(s) ==
    LET Named(t) ==
            IF t \in { << "i", "n", "f" >>, << "+", "i", "n", "f" >>,
                       << "i", "n", "f", "i", "n", "i", "t", "y" >>,
                       << "+", "i", "n", "f", "i", "n", "i", "t", "y" >> }
            THEN InfText
            ELSE IF t \in { << "-", "i", "n", "f" >>,
                            << "-", "i", "n", "f", "i", "n", "i", "t", "y" >> }
            THEN Signed(TRUE, InfText)
            ELSE IF t = << "n", "a", "n" >> THEN NaNText
            ELSE NoDouble
    IN  Named(AsciiLower(Strip(s, JavaBlank)))

\* the characters float() strips: ASCII whitespace, and the whitespace above
\* ASCII, which it turns into spaces first
PythonBlank == {9, 10, 11, 12, 13, 32, 133, 160}

\* an underscore is allowed between two digits and nowhere else
UnderscoresOk(t) ==
    \A i \in DOMAIN t :
        t[i] = "_" => i > 1 /\ i < Len(t) /\ IsDigit(t[i - 1]) /\ IsDigit(t[i + 1])

\* Python's float(s) of a str, NoDouble for ValueError
PythonFloat(s) ==
    Only({ IF ~UnderscoresOk(Strip(s, PythonBlank)) \/ u.rest = << >> THEN NoDouble
           ELSE IF AsciiLower(u.rest) \in
                       { << "i", "n", "f" >>,
                         << "i", "n", "f", "i", "n", "i", "t", "y" >> }
           THEN Signed(u.neg, InfText)
           ELSE IF AsciiLower(u.rest) = << "n", "a", "n" >> THEN NaNText
           ELSE DecimalLiteral(u.rest, u.neg, FALSE)
           : u \in {SignOf(SelectSeq(Strip(s, PythonBlank), LAMBDA c : c # "_"))} })

\* what a double is as a number: -0.0 equals 0.0
NumberOf(val) == IF val = Signed(TRUE, ZeroText) THEN ZeroText ELSE val

IsNaN(val) == val = NaNText
IsInfinite(val) == val \in {InfText, Signed(TRUE, InfText)}

\* the double is a whole number an int64 holds: x == x.astype(int)
IsWholeNumber(val) == Len(val) > 2 /\ val[Len(val) - 1] = "."
(***************************************************************************)
(* Cells and strings.                                                      *)
(***************************************************************************)
Null == [type |-> "null", val |-> << >>]
Str(s) == [type |-> "string", val |-> s]
Dbl(s) == [type |-> "double", val |-> s]

\* the doubles 0.0 and 1.0
Zero == Dbl(ZeroText)
One == Dbl(OneText)

\* a null string cell of a text column (no character is the string "NULL")
NullText == << "NULL" >>

\* the separator handed to concat_ws
SEP == << " ", "[", "S", "E", "P", "]", " " >>

SampleText1 ==
    << "H", "o", "w", " ", "d", "o", " ", "I", " ", "i", "m", "p",
       "r", "o", "v", "e", " ", "m", "y", " ", "E", "n", "g", "l",
       "i", "s", "h", "?", " ", "[", "S", "E", "P", "]", " ", "W",
       "h", "a", "t", " ", "a", "r", "e", " ", "s", "o", "m", "e",
       " ", "w", "a", "y", "s", " ", "t", "o", " ", "i", "m", "p",
       "r", "o", "v", "e", " ", "m", "y", " ", "E", "n", "g", "l",
       "i", "s", "h", "?" >>

SampleText2 ==
    << "W", "h", "a", "t", " ", "i", "s", " ", "t", "h", "e", " ",
       "c", "a", "p", "i", "t", "a", "l", " ", "o", "f", " ", "F",
       "r", "a", "n", "c", "e", "?", " ", "[", "S", "E", "P", "]",
       " ", "W", "h", "a", "t", " ", "i", "s", " ", "t", "h", "e",
       " ", "p", "o", "p", "u", "l", "a", "t", "i", "o", "n", " ",
       "o", "f", " ", "G", "e", "r", "m", "a", "n", "y", "?" >>

SampleText3 ==
    << "H", "o", "w", " ", "t", "o", " ", "l", "o", "s", "e", " ",
       "w", "e", "i", "g", "h", "t", " ", "f", "a", "s", "t", "?",
       " ", "[", "S", "E", "P", "]", " ", "W", "h", "a", "t", " ",
       "a", "r", "e", " ", "s", "o", "m", "e", " ", "e", "f", "f",
       "e", "c", "t", "i", "v", "e", " ", "w", "a", "y", "s", " ",
       "t", "o", " ", "l", "o", "s", "e", " ", "w", "e", "i", "g",
       "h", "t", " ", "q", "u", "i", "c", "k", "l", "y", "?" >>

(***************************************************************************)
(* load_qqp_data: the Spark operations it uses.                            *)
(*                                                                         *)
(* A DataFrame is [columns, rows]; a row carries every field the model     *)
(* knows, and `columns` says which of them the frame has.  A field of a    *)
(* column the frame lacks holds a null and is never read.                  *)
(***************************************************************************)
\* the result of a call or of a try body: a value, or the exception raised
Return(d) == [exc |-> "none", data |-> d]
Raise(e) == [exc |-> e, data |-> << >>]

\* col(c).cast("double") of a cell, as Spark 3 casts with ANSI mode off: the
\* string is handed to Double.parseDouble, one it rejects is tried as a
\* special literal, and one that is neither gives null
CastDouble(cell) ==
    IF cell.type = "double" THEN cell
    ELSE IF cell.type = "null" THEN Null
    ELSE Only({ IF parsed # NoDouble THEN Dbl(parsed)
                ELSE IF SparkSpecialLiteral(cell.val) = NoDouble THEN Null
                ELSE Dbl(SparkSpecialLiteral(cell.val))
                : parsed \in {JavaParseDouble(cell.val)} })

\* col("label").isNotNull()
isNotNull(cell) == cell.type # "null"

\* (col("label") == 0.0) | (col("label") == 1.0), on a double column: the
\* comparison is of numbers, so -0.0 passes and NaN does not
LabelIsZeroOrOne(cell) ==
    cell.type = "double" /\ NumberOf(cell.val) \in {ZeroText, OneText}

\* lines 51-59: label from is_duplicate, nulls and other values filtered out
LabelFromIsDuplicate(df) ==
    LET KeepNotNull(r) == isNotNull(r.label)
        KeepZeroOrOne(r) == LabelIsZeroOrOne(r.label)
    IN  [columns |-> df.columns \cup {"label"},
         rows |-> SelectSeq(
                      SelectSeq(
                          [i \in DOMAIN df.rows |->
                              [df.rows[i] EXCEPT
                                  !.label = CastDouble(df.rows[i].is_duplicate)]],
                          KeepNotNull),
                      KeepZeroOrOne)]

\* lines 61-63: the placeholder label of a test set
LabelPlaceholder(df) ==
    [columns |-> df.columns \cup {"label"},
     rows |-> [i \in DOMAIN df.rows |-> [df.rows[i] EXCEPT !.label = Zero]]]

\* LabelStep with the is_test test forgotten in the first branch
LabelStep_ignores_is_test(df, is_test) ==
    IF "is_duplicate" \in df.columns THEN LabelFromIsDuplicate(df)
    ELSE IF is_test THEN LabelPlaceholder(df)
    ELSE df

\* lines 50-63: which of the two the frame gets, or neither
LabelStep(df, is_test) ==
    IF ~is_test /\ "is_duplicate" \in df.columns THEN LabelFromIsDuplicate(df)
    ELSE IF is_test THEN LabelPlaceholder(df)
    ELSE df

\* concat_ws with the separator left out
concat_ws_no_separator(sep, a, b) ==
    IF a = NullText /\ b = NullText THEN << >>
    ELSE IF a = NullText THEN b
    ELSE IF b = NullText THEN a
    ELSE a \o b

\* concat_ws(sep, a, b): null arguments are skipped, the result is never null
concat_ws(sep, a, b) ==
    IF a = NullText /\ b = NullText THEN << >>
    ELSE IF a = NullText THEN b
    ELSE IF b = NullText THEN a
    ELSE a \o sep \o b

\* line 66: the text column
TextStep(df) ==
    [columns |-> df.columns \cup {"text"},
     rows |-> [i \in DOMAIN df.rows |->
                 [df.rows[i] EXCEPT
                     !.text = concat_ws(SEP, df.rows[i].question1, df.rows[i].question2)]]]

\* line 69: select("text", "label").filter(col("text").isNotNull())
SelectStep(df) ==
    LET KeepText(r) == r.text # NullText
        proj == [i \in DOMAIN df.rows |->
                    [text |-> df.rows[i].text, label |-> df.rows[i].label]]
    IN  SelectSeq(proj, KeepText)

\* lines 82-85: the sample dataset
SampleData ==
    << [text |-> SampleText1, label |-> One],
       [text |-> SampleText2, label |-> Zero],
       [text |-> SampleText3, label |-> One] >>

\* lines 47-76, the try body: Spark raises AnalysisException for a path it
\* cannot read and for a column the frame lacks; line 74 raises ValueError
TryBody(src, is_test) ==
    IF ~src.readable THEN Raise("AnalysisException")
    ELSE Only({
        IF ~({"question1", "question2"} \subseteq data1.columns)
        THEN Raise("AnalysisException")
        ELSE IF "label" \notin data1.columns
        THEN Raise("AnalysisException")
        ELSE Only({ IF Len(data3) = 0 THEN Raise("ValueError") ELSE Return(data3)
                    : data3 \in {SelectStep(TextStep(data1))} })
        : data1 \in {LabelStep([columns |-> src.columns, rows |-> src.rows], is_test)} })

\* an except clause that lets the ValueError of line 74 through
HandleException_ValueError_escapes(r) ==
    IF r.exc \notin {"none", "ValueError"} THEN Return(SampleData) ELSE r

\* lines 77-85: except Exception
HandleException(r) ==
    IF r.exc # "none" THEN Return(SampleData) ELSE r

\* load_qqp_data without its try/except
load_qqp_data_no_except(src, is_test) == TryBody(src, is_test)

\* lines 44-85
load_qqp_data(src, is_test) == HandleException(TryBody(src, is_test))


(***************************************************************************)
(* train_fasttext: tokenising, the embedding model and text_to_vector.     *)
(***************************************************************************)
\* str.lower() on one character: of the characters up to U+00FF, A to Z, À to
\* Ö and Ø to Þ have a lower case, 32 code points on
LowerChar(c) ==
    IF Ord(c) \in (65..90) \cup (192..214) \cup (216..222) THEN Chr(Ord(c) + 32)
    ELSE c

\* text.lower()
lower(text) == [i \in DOMAIN text |-> LowerChar(text[i])]

\* str.isspace() on one character: the whitespace up to U+00FF is \t, \n,
\* \x0b, \x0c, \r, \x1c to \x1f, the space, \x85 and \xa0
IsSpace(c) == Ord(c) \in {9, 10, 11, 12, 13, 28, 29, 30, 31, 32, 133, 160}

\* text.split(): the maximal runs of characters that are not whitespace, in
\* the order they start
split(text) ==
    LET starts == {i \in DOMAIN text :
                      ~IsSpace(text[i]) /\ (i = 1 \/ IsSpace(text[i - 1]))}
        EndOf(i) == LET stops == {j \in i..Len(text) : IsSpace(text[j])}
                    IN  IF stops = {} THEN Len(text) ELSE SetMin(stops) - 1
        Nth(k) == CHOOSE i \in starts : Cardinality({j \in starts : j < i}) = k - 1
    IN  [k \in 1..Cardinality(starts) |-> SubSeq(text, Nth(k), EndOf(Nth(k)))]

\* lines 134-137: a text that is no str (a null cell) has no tokens
preprocess_text(text) ==
    IF text # NullText THEN split(lower(text)) ELSE << >>

\* the bytes of a character in UTF-8
Utf8(c) ==
    IF Ord(c) < 128 THEN << Ord(c) >>
    ELSE << 192 + (Ord(c) \div 64), 128 + (Ord(c) % 64) >>

RECURSIVE Encode(_)
Encode(s) == IF s = << >> THEN << >> ELSE Utf8(Head(s)) \o Encode(Tail(s))

\* a ^ b on the lowest n bits
RECURSIVE XorBits(_, _, _)
XorBits(a, b, n) ==
    IF n = 0 THEN 0
    ELSE ((a + b) % 2) + 2 * XorBits(a \div 2, b \div 2, n - 1)

\* gensim's ft_hash_bytes, one byte on: h, a uint32 held as two halves of 16
\* bits, is xor-ed with the byte, which is sign-extended from an int8, and
\* multiplied by 16777619 = 256 * 2^16 + 403
HashStep(h, byte) ==
    LET low == XorBits(h.lo % 256, byte, 8)
        x == IF byte < 128
             THEN [hi |-> h.hi, lo |-> (h.lo \div 256) * 256 + low]
             ELSE [hi |-> 65535 - h.hi, lo |-> (255 - (h.lo \div 256)) * 256 + low]
        t == x.lo * 403
    IN  [hi |-> (x.hi * 403 + x.lo * 256 + (t \div 65536)) % 65536,
         lo |-> t % 65536]

RECURSIVE HashFrom(_, _, _)
HashFrom(bytes, i, h) ==
    IF i > Len(bytes) THEN h
    ELSE LET h2 == HashStep(h, bytes[i])
         IN  IF h2.lo >= 0 THEN HashFrom(bytes, i + 1, h2) ELSE h2

\* ft_hash_bytes(bytes): FNV-1a from 2166136261 = 33052 * 2^16 + 40389
ft_hash_bytes(bytes) == HashFrom(bytes, 1, [hi |-> 33052, lo |-> 40389])

\* a hash modulo the number of buckets
BucketOf(h, num_buckets) ==
    ((((h.hi * 256) % num_buckets) * 256) + h.lo) % num_buckets

\* gensim's ft_ngram_hashes(word, minn, maxn, num_buckets): the buckets of the
\* character n-grams of "<" + word + ">", for each start the lengths minn to
\* maxn that fit; a single "<" or ">" is no n-gram
ft_ngram_hashes(word, minn, maxn, num_buckets) ==
    LET w == << "<" >> \o word \o << ">" >>
        grams == {g \in (1..Len(w)) \X (minn..maxn) :
                     /\ g[1] + g[2] - 1 <= Len(w)
                     /\ g[2] >= 1
                     /\ ~(g[2] = 1 /\ (g[1] = 1 \/ g[1] = Len(w)))}
        Before(f, g) == f[1] < g[1] \/ (f[1] = g[1] /\ f[2] < g[2])
        Nth(k) == CHOOSE g \in grams : Cardinality({f \in grams : Before(f, g)}) = k - 1
    IN  [k \in 1..Cardinality(grams) |->
            BucketOf(ft_hash_bytes(Encode(SubSeq(w, Nth(k)[1], Nth(k)[1] + Nth(k)[2] - 1))),
                     num_buckets)]

(***************************************************************************)
(* Vectors.  What training leaves in the two tables of the model, one row  *)
(* for each vocabulary word and one for each n-gram bucket, is any floats, *)
(* so a vector is held as what gensim and numpy compute it from: a word    *)
(* vector is the mean of the rows it names (the origin when it names none) *)
(* and a feature vector the mean of word vectors (zeros when of none).     *)
(***************************************************************************)
WordVector(dim, words, buckets) ==
    [dim |-> dim, vocab_rows |-> words, ngram_rows |-> buckets]

\* np.zeros(n)
np_zeros(n) == [dim |-> n, mean_of |-> << >>]

\* np.mean(word_vectors, axis=0), of at least one vector
np_mean(vs) == [dim |-> vs[1].dim, mean_of |-> vs]

\* FastTextKeyedVectors.adjust_vectors: the vector stored for a vocabulary word
\* is its row of vectors_vocab plus the rows of vectors_ngrams its n-grams hash
\* to, divided by their number
AdjustedVector(word, dim, minn, maxn, num_buckets) ==
    WordVector(dim, << word >>, ft_ngram_hashes(word, minn, maxn, num_buckets))

\* `word in model.wv` of line 147.  The model is built with the keywords
\* vector_size= and epochs=, which only gensim 4 accepts; there model.wv is a
\* FastTextKeyedVectors, whose __contains__ tests the vocabulary only when
\* the model has no n-gram buckets and is true for every word when it has
\* them (the default, which line 141 keeps)
wv_contains(model, word) ==
    IF model.bucket = 0 THEN word \in model.key_to_index ELSE TRUE

\* model.wv[word]: the stored vector of a vocabulary word; for any other word
\* the mean of the bucket rows its n-grams hash to, the origin if it has none
wv_getitem(model, word) ==
    IF word \in model.key_to_index THEN model.vectors[word]
    ELSE WordVector(model.vector_size, << >>,
                    ft_ngram_hashes(word, model.min_n, model.max_n, model.bucket))

\* lines 145-150
text_to_vector(text, model) ==
    LET InModel(w) == wv_contains(model, w)
        Vectors(words) == [i \in DOMAIN words |-> wv_getitem(model, words[i])]
        Mean(word_vectors) == IF Len(word_vectors) = 0 THEN np_zeros(model.vector_size)
                              ELSE np_mean(word_vectors)
    IN  Mean(Vectors(SelectSeq(preprocess_text(text), InModel)))

\* the model line 141 leaves for a vocabulary
TrainedModel(vocab) ==
    [key_to_index |-> vocab,
     vector_size |-> vector_size,
     bucket |-> bucket,
     min_n |-> min_n,
     max_n |-> max_n,
     vectors |-> [w \in vocab |-> AdjustedVector(w, vector_size, min_n, max_n, bucket)]]

\* fasttext_model before line 141 has run
NoModel ==
    [key_to_index |-> {}, vector_size |-> vector_size, bucket |-> bucket,
     min_n |-> min_n, max_n |-> max_n, vectors |-> << >>]
(***************************************************************************)
(* main and train_fasttext: the steps between loading and the report.      *)
(***************************************************************************)
\* lines 275-284: when either set has a null label, both are filtered
Validate(train, test) ==
    LET NullLabels(d) == Cardinality({i \in DOMAIN d : ~isNotNull(d[i].label)})
        NotNullLabel(r) == isNotNull(r.label)
    IN  IF NullLabels(train) > 0 \/ NullLabels(test) > 0
        THEN [train |-> SelectSeq(train, NotNullLabel),
              test |-> SelectSeq(test, NotNullLabel)]
        ELSE [train |-> train, test |-> test]

\* lines 122-127: toPandas().dropna() drops a row with a null or NaN in it;
\* the string "NaN" of a label column that was not cast is neither
dropna(df) ==
    LET Whole(r) ==
            /\ r.text # NullText
            /\ isNotNull(r.label)
            /\ r.label # Dbl(NaNText)
    IN  SelectSeq(df, Whole)

\* float(x) of lines 130-131 succeeds on a double and on a str that Python
\* reads as a float
CanFloat(cell) == cell.type = "double" \/ PythonFloat(cell.val) # NoDouble

\* float(x) of a cell for which it succeeds
ToFloat(cell) == IF cell.type = "double" THEN cell ELSE Dbl(PythonFloat(cell.val))

\* lines 130-131: ["label"].astype(float) raises ValueError on other strings
astype_float(df) ==
    IF \A i \in DOMAIN df : CanFloat(df[i].label)
    THEN Return([i \in DOMAIN df |-> [df[i] EXCEPT !.label = ToFloat(df[i].label)]])
    ELSE Raise("ValueError")

\* lines 121-131: both frames, the training frame first, or the exception
\* that ends the call
Prepare(train, test) ==
    Only({ IF r[1].exc # "none" THEN [exc |-> r[1].exc, train |-> << >>, test |-> << >>]
           ELSE IF r[2].exc # "none"
           THEN [exc |-> r[2].exc, train |-> << >>, test |-> << >>]
           ELSE [exc |-> "none", train |-> r[1].data, test |-> r[2].data]
           : r \in {[k \in 1..2 |-> astype_float(dropna(<< train, test >>[k]))]} })

\* line 140 reading the test frame as well
TrainSentences_with_test(train_frame, test_frame) ==
    [i \in DOMAIN train_frame |-> preprocess_text(train_frame[i].text)] \o
    [i \in DOMAIN test_frame |-> preprocess_text(test_frame[i].text)]

\* line 140, in the scope of train_fasttext, where both frames are at hand
TrainSentences(train_frame, test_frame) ==
    [i \in DOMAIN train_frame |-> preprocess_text(train_frame[i].text)]

\* the vocabulary FastText builds with min_count=1: every token of a sentence
Vocabulary(sentences) ==
    UNION {{sentences[i][j] : j \in DOMAIN sentences[i]} : i \in DOMAIN sentences}

\* lines 141-142: gensim raises RuntimeError when the vocabulary is empty
FastText(sentences) ==
    IF Vocabulary(sentences) = {} THEN Raise("RuntimeError")
    ELSE Return(TrainedModel(Vocabulary(sentences)))

\* lines 153 and 155
Features(frame, model) == [i \in DOMAIN frame |-> text_to_vector(frame[i].text, model)]

\* lines 154 and 156
Labels(frame) == [i \in DOMAIN frame |-> frame[i].label]

\* np.unique(y): the numbers in y, -0.0 being 0.0
ClassesOf(y) == {Dbl(NumberOf(y[i].val)) : i \in DOMAIN y}

\* lines 159-161: scikit-learn's fit raises ValueError for no samples, for X
\* and y of different lengths, for a NaN or an infinity in y, for a y that is
\* not of whole numbers (a continuous target) and for fewer than two classes
fit(X, y) ==
    IF \/ Len(X) = 0
       \/ Len(X) # Len(y)
       \/ \E i \in DOMAIN y : IsNaN(y[i].val) \/ IsInfinite(y[i].val)
       \/ \E i \in DOMAIN y : ~IsWholeNumber(y[i].val)
       \/ Cardinality(ClassesOf(y)) < 2
    THEN Raise("ValueError")
    ELSE Return([fitted |-> TRUE, classes |-> ClassesOf(y)])

\* lines 166-168: the scores raise ValueError for a y_test with a NaN or an
\* infinity in it or not of whole numbers
CanScore(y) == \A i \in DOMAIN y : IsWholeNumber(y[i].val)

\* fractions, unreduced
Frac(n, d) == [num |-> n, den |-> d]
FracAdd(x, y) == Frac(x.num * y.den + y.num * x.den, x.den * y.den)

Support(y, c) == Cardinality({i \in DOMAIN y : Dbl(NumberOf(y[i].val)) = c})
TruePos(y, p, c) ==
    Cardinality({i \in DOMAIN y : Dbl(NumberOf(y[i].val)) = c /\ p[i] = c})

\* 2 * tp / (actual + predicted) of class c: its precision when by is 1, its
\* recall when by is 2 and its F1 when by is 3, 0 where the divisor is 0
ClassScore(y, p, c, by) ==
    LET tp == TruePos(y, p, c)
    IN  IF by = 1 THEN Frac(tp, Max(Support(p, c), 1))
        ELSE IF by = 2 THEN Frac(tp, Max(Support(y, c), 1))
        ELSE Frac(2 * tp, Max(Support(y, c) + Support(p, c), 1))

\* average='weighted': the mean of a score over the classes, each weighted
\* by its share of y
RECURSIVE Weighted(_, _, _, _)
Weighted(y, p, classes, by) ==
    IF classes = {} THEN Frac(0, 1)
    ELSE LET c == CHOOSE k \in classes : TRUE
             s == ClassScore(y, p, c, by)
         IN  FracAdd(Frac(Support(y, c) * s.num, Len(y) * s.den),
                     Weighted(y, p, classes \ {c}, by))

\* lines 165-168: accuracy, weighted precision, weighted recall, weighted F1
Metrics(y, p) ==
    LET classes == ClassesOf(y) \cup ClassesOf(p)
    IN  << Frac(Cardinality({i \in DOMAIN y : p[i] = Dbl(NumberOf(y[i].val))}), Len(y)),
           Weighted(y, p, classes, 1),
           Weighted(y, p, classes, 2),
           Weighted(y, p, classes, 3) >>

\* ft_metrics before train_fasttext has returned
NoMetrics == << >>

\* line 295-302
EmptyResults ==
    [Model |-> << >>, Accuracy |-> << >>, Precision |-> << >>,
     Recall |-> << >>, F1 |-> << >>, TrainingTime |-> << >>]

\* lines 308-313 with the last append forgotten
AppendResults_without_time(table, name, metrics, seconds) ==
    [Model |-> Append(table.Model, name),
     Accuracy |-> Append(table.Accuracy, metrics[1]),
     Precision |-> Append(table.Precision, metrics[2]),
     Recall |-> Append(table.Recall, metrics[3]),
     F1 |-> Append(table.F1, metrics[4]),
     TrainingTime |-> table.TrainingTime]

\* lines 308-313
AppendResults(table, name, metrics, seconds) ==
    [Model |-> Append(table.Model, name),
     Accuracy |-> Append(table.Accuracy, metrics[1]),
     Precision |-> Append(table.Precision, metrics[2]),
     Recall |-> Append(table.Recall, metrics[3]),
     F1 |-> Append(table.F1, metrics[4]),
     TrainingTime |-> Append(table.TrainingTime, seconds)]

(***************************************************************************)
(* The sources load_qqp_data is tried on.                                  *)
(***************************************************************************)
ColumnNames == {"question1", "question2", "is_duplicate", "label"}

Question1Vals == {NullText, << "a" >>}
Question2Vals == {NullText, << "B", " ", "c" >>}
IsDuplicateVals ==
    {Null, Str(<< "0" >>), Str(<< "1" >>), Str(<< "2" >>), Str(<< "x" >>), Str(<< " ", "1" >>), Str(<< "-", "0" >>)}
LabelVals == {Null, Str(<< "1" >>), Str(<< "x" >>)}

\* the rows a file with header `cols` can hold
RowsOf(cols) ==
    [question1 : IF "question1" \in cols THEN Question1Vals ELSE {NullText},
     question2 : IF "question2" \in cols THEN Question2Vals ELSE {NullText},
     is_duplicate : IF "is_duplicate" \in cols THEN IsDuplicateVals ELSE {Null},
     label : IF "label" \in cols THEN LabelVals ELSE {Null},
     text : {NullText}]

SeqsUpTo(S, n) == UNION {[1..k -> S] : k \in 0..n}

Unreadable == [readable |-> FALSE, columns |-> {}, rows |-> << >>]

Sources ==
    {Unreadable} \cup
    UNION {[readable : {TRUE}, columns : {cols}, rows : SeqsUpTo(RowsOf(cols), MaxRows)] :
              cols \in SUBSET ColumnNames}

Pending == [exc |-> "pending", data |-> << >>]

(***************************************************************************)
(* The inputs of text_to_vector and of main.                               *)
(***************************************************************************)
VecAlphabet == {"a", "B", "z", " ", "\r", "É"}
VecTexts == {NullText} \cup SeqsUpTo(VecAlphabet, MaxTextLen)
VecVocabularies ==
    { {<< "a" >>}, {<< "a" >>, << "b" >>}, {<< "a", "b" >>, << "b" >>},
      {<< "é" >>, << "a" >>} }
VecModels == {TrainedModel(v) : v \in VecVocabularies}

\* vz_result before text_to_vector has returned
NoVector == [dim |-> 0, mean_of |-> << >>]

Row(q1, q2, dup, lab) ==
    [question1 |-> q1, question2 |-> q2, is_duplicate |-> dup, label |-> lab,
     text |-> NullText]

File(cols, rows) == [readable |-> TRUE, columns |-> cols, rows |-> rows]

QqpHeader == {"question1", "question2", "is_duplicate"}
LabelHeader == {"question1", "question2", "label"}

\* the files args.data_file and args.test_file may name
MainSources ==
    { Unreadable,
      File(QqpHeader, << Row(<< "a" >>, << "B", " ", "c" >>, Str(<< "1" >>), Null),
                         Row(<< "a" >>, << "z" >>, Str(<< "0" >>), Null) >>),
      File(QqpHeader, << Row(<< "a" >>, << "B", " ", "c" >>, Str(<< "1" >>), Null),
                         Row(<< "z" >>, NullText, Str(<< "1" >>), Null),
                         Row(<< "a" >>, << "a" >>, Str(<< "x" >>), Null) >>),
      File(QqpHeader, << Row(NullText, NullText, Str(<< "1" >>), Null),
                         Row(NullText, NullText, Str(<< "0" >>), Null) >>),
      File(LabelHeader, << Row(<< "a" >>, << "B", " ", "c" >>, Null, Null),
                           Row(<< "a" >>, << "z" >>, Null, Null) >>),
      File(LabelHeader, << Row(<< "a" >>, << "B", " ", "c" >>, Null, Str(<< "1" >>)),
                           Row(<< "a" >>, << "z" >>, Null, Str(<< "0" >>)),
                           Row(<< "z" >>, << "z" >>, Null, Null) >>),
      File(LabelHeader, << Row(<< "a" >>, << "B", " ", "c" >>, Null, Str(<< "x" >>)),
                           Row(<< "a" >>, << "z" >>, Null, Str(<< "1" >>)) >>),
      File(LabelHeader, << Row(<< "a" >>, << "B", " ", "c" >>, Null, Str(<< " ", "1" >>)),
                           Row(<< "a" >>, << "z" >>, Null, Str(<< "-", "0" >>)),
                           Row(<< "z" >>, << "a" >>, Null, Str(<< "1", "_", "0" >>)) >>),
      File(LabelHeader, << Row(<< "a" >>, << "B", " ", "c" >>, Null, Str(<< "N", "a", "N" >>)),
                           Row(<< "a" >>, << "z" >>, Null, Str(<< "1" >>)),
                           Row(<< "z" >>, << "z" >>, Null, Str(<< "0" >>)) >>),
      File(LabelHeader, << Row(<< "a" >>, << "B", " ", "c" >>, Null, Str(<< "0", ".", "5" >>)),
                           Row(<< "a" >>, << "z" >>, Null, Str(<< "1" >>)),
                           Row(<< "z" >>, << "z" >>, Null, Str(<< "0" >>)) >>),
      File(QqpHeader, << Row(<< "É", "\r", "a" >>, << "B", " ", "c" >>, Str(<< "1", "d" >>), Null),
                         Row(<< "a" >>, << "z" >>, Str(<< "+", "0" >>), Null),
                         Row(<< "a" >>, << "z" >>, Str(<< "3" >>), Null) >>) }

(***************************************************************************)
(* The parts of the state a specification does not use stay as they are.   *)
(***************************************************************************)
LdIdle ==
    /\ ld_source = Unreadable
    /\ ld_is_test = FALSE
    /\ ld_result = Pending

VzIdle ==
    /\ vz_text = NullText
    /\ vz_model = NoModel
    /\ vz_result = NoVector

MainLocalsInit ==
    /\ error = "none"
    /\ train_data = << >>
    /\ test_data = << >>
    /\ results = EmptyResults
    /\ now = 0
    /\ start_time = 0
    /\ fit_end = 0
    /\ training_time = 0
    /\ train_pandas = << >>
    /\ test_pandas = << >>
    /\ train_sentences = << >>
    /\ fasttext_model = NoModel
    /\ X_train = << >>
    /\ y_train = << >>
    /\ X_test = << >>
    /\ y_test = << >>
    /\ ft_metrics = NoMetrics

MainIdle ==
    /\ pc = "idle"
    /\ data_file = Unreadable
    /\ test_file = Unreadable
    /\ MainLocalsInit

(***************************************************************************)
(* SpecLoad: load_qqp_data called once on any source.                      *)
(***************************************************************************)
InitLoad ==
    /\ ld_source \in Sources
    /\ ld_is_test \in BOOLEAN
    /\ ld_result = Pending
    /\ VzIdle
    /\ MainIdle

\* load_qqp_data(file_path, is_test) is called and returns or raises
Load ==
    /\ ld_result = Pending
    /\ ld_result' = load_qqp_data(ld_source, ld_is_test)
    /\ UNCHANGED << ld_source, ld_is_test, vz_vars, main_vars >>

NextLoad == Load

SpecLoad == InitLoad /\ [][NextLoad]_vars

(***************************************************************************)
(* SpecVec: text_to_vector called once on any text and trained model.      *)
(***************************************************************************)
InitVec ==
    /\ vz_text \in VecTexts
    /\ vz_model \in VecModels
    /\ vz_result = NoVector
    /\ LdIdle
    /\ MainIdle

Vectorize ==
    /\ vz_result = NoVector
    /\ vz_result' = text_to_vector(vz_text, vz_model)
    /\ UNCHANGED << vz_text, vz_model, ld_vars, main_vars >>

NextVec == Vectorize

SpecVec == InitVec /\ [][NextVec]_vars

(***************************************************************************)
(* Spec: one run of main().  An exception nothing catches ends the run at  *)
(* pc = "threw"; time passes while a step of train_fasttext runs.          *)
(***************************************************************************)
Init ==
    /\ pc = "load"
    /\ data_file \in MainSources
    /\ test_file \in MainSources
    /\ MainLocalsInit
    /\ LdIdle
    /\ VzIdle

Ticks == 0..MaxTick

\* lines 267-268: both files are loaded with is_test left False
MainLoad ==
    /\ pc = "load"
    /\ train_data' = load_qqp_data(data_file, FALSE).data
    /\ test_data' = load_qqp_data(test_file, FALSE).data
    /\ pc' = "validate"
    /\ UNCHANGED << error, data_file, test_file, results, now, start_time, fit_end,
                    training_time, train_pandas, test_pandas, train_sentences,
                    fasttext_model, X_train, y_train, X_test, y_test, ft_metrics,
                    ld_vars, vz_vars >>

\* lines 271-302: the null-label check and the empty results table
MainValidate ==
    /\ pc = "validate"
    /\ train_data' = Validate(train_data, test_data).train
    /\ test_data' = Validate(train_data, test_data).test
    /\ results' = EmptyResults
    /\ pc' = "ft_start"
    /\ UNCHANGED << error, data_file, test_file, now, start_time, fit_end,
                    training_time, train_pandas, test_pandas, train_sentences,
                    fasttext_model, X_train, y_train, X_test, y_test, ft_metrics,
                    ld_vars, vz_vars >>

\* lines 117-118: train_fasttext is entered and the timer read
FtStart ==
    /\ pc = "ft_start"
    /\ start_time' = now
    /\ pc' = "ft_prepare"
    /\ UNCHANGED << error, data_file, test_file, train_data, test_data, results, now,
                    fit_end, training_time, train_pandas, test_pandas,
                    train_sentences, fasttext_model, X_train, y_train, X_test,
                    y_test, ft_metrics, ld_vars, vz_vars >>

\* lines 121-131
FtPrepare ==
    /\ pc = "ft_prepare"
    /\ \E d \in Ticks : now' = now + d
    /\ \E r \in {Prepare(train_data, test_data)} :
           IF r.exc = "none"
           THEN /\ train_pandas' = r.train
                /\ test_pandas' = r.test
                /\ pc' = "ft_embed"
                /\ error' = error
           ELSE /\ pc' = "threw"
                /\ error' = "astype"
                /\ UNCHANGED << train_pandas, test_pandas >>
    /\ UNCHANGED << data_file, test_file, train_data, test_data, results, start_time,
                    fit_end, training_time, train_sentences, fasttext_model,
                    X_train, y_train, X_test, y_test, ft_metrics, ld_vars, vz_vars >>

\* lines 140-142
FtEmbed ==
    /\ pc = "ft_embed"
    /\ \E d \in Ticks : now' = now + d
    /\ train_sentences' = TrainSentences(train_pandas, test_pandas)
    /\ \E r \in {FastText(train_sentences')} :
           IF r.exc = "none"
           THEN /\ fasttext_model' = r.data
                /\ pc' = "ft_vectorize"
                /\ error' = error
           ELSE /\ pc' = "threw"
                /\ error' = "FastText"
                /\ UNCHANGED fasttext_model
    /\ UNCHANGED << data_file, test_file, train_data, test_data, results, start_time,
                    fit_end, training_time, train_pandas, test_pandas,
                    X_train, y_train, X_test, y_test, ft_metrics, ld_vars, vz_vars >>

\* lines 153-156
FtVectorize ==
    /\ pc = "ft_vectorize"
    /\ \E d \in Ticks : now' = now + d
    /\ X_train' = Features(train_pandas, fasttext_model)
    /\ y_train' = Labels(train_pandas)
    /\ X_test' = Features(test_pandas, fasttext_model)
    /\ y_test' = Labels(test_pandas)
    /\ pc' = "ft_fit"
    /\ UNCHANGED << error, data_file, test_file, train_data, test_data, results,
                    start_time, fit_end, training_time, train_pandas, test_pandas,
                    train_sentences, fasttext_model, ft_metrics, ld_vars, vz_vars >>

\* lines 159-161; fit_end notes the time at which fit has completed
FtFit ==
    /\ pc = "ft_fit"
    /\ \E d \in Ticks : now' = now + d
    /\ fit_end' = now'
    /\ IF fit(X_train, y_train).exc = "none"
       THEN pc' = "ft_predict" /\ error' = error
       ELSE pc' = "threw" /\ error' = "fit"
    /\ UNCHANGED << data_file, test_file, train_data, test_data, results, start_time,
                    training_time, train_pandas, test_pandas, train_sentences,
                    fasttext_model, X_train, y_train, X_test, y_test, ft_metrics,
                    ld_vars, vz_vars >>

\* lines 164-168: predict raises ValueError for an empty X_test and the
\* scores for a y_test they cannot take; what the fitted classifier predicts
\* is any of the classes it was fitted on
FtPredict ==
    /\ pc = "ft_predict"
    /\ \E d \in Ticks : now' = now + d
    /\ IF Len(X_test) = 0
       THEN /\ pc' = "threw"
            /\ error' = "predict"
            /\ UNCHANGED ft_metrics
       ELSE IF ~CanScore(y_test)
       THEN /\ pc' = "threw"
            /\ error' = "score"
            /\ UNCHANGED ft_metrics
       ELSE /\ \E ft_predictions \in [DOMAIN X_test -> fit(X_train, y_train).data.classes] :
                  ft_metrics' = Metrics(y_test, ft_predictions)
            /\ pc' = "ft_return"
            /\ error' = error
    /\ UNCHANGED << data_file, test_file, train_data, test_data, results, start_time,
                    fit_end, training_time, train_pandas, test_pandas,
                    train_sentences, fasttext_model, X_train, y_train, X_test,
                    y_test, ld_vars, vz_vars >>

\* lines 170-174: the timer is read again and the call returns
FtReturn ==
    /\ pc = "ft_return"
    /\ training_time' = now - start_time
    /\ pc' = "record"
    /\ UNCHANGED << error, data_file, test_file, train_data, test_data, results, now,
                    start_time, fit_end, train_pandas, test_pandas, train_sentences,
                    fasttext_model, X_train, y_train, X_test, y_test, ft_metrics,
                    ld_vars, vz_vars >>

\* lines 307-313: the six appends that follow the call
MainRecord ==
    /\ pc = "record"
    /\ results' = AppendResults(results, "FastText", ft_metrics, training_time)
    /\ pc' = "report"
    /\ UNCHANGED << error, data_file, test_file, train_data, test_data, now,
                    start_time, fit_end, training_time, train_pandas, test_pandas,
                    train_sentences, fasttext_model, X_train, y_train, X_test,
                    y_test, ft_metrics, ld_vars, vz_vars >>

\* lines 318-356: the charts are drawn from results, which is only read
MainReport ==
    /\ pc = "report"
    /\ pc' = "stop"
    /\ UNCHANGED << error, data_file, test_file, train_data, test_data, results, now,
                    start_time, fit_end, training_time, train_pandas, test_pandas,
                    train_sentences, fasttext_model, X_train, y_train, X_test,
                    y_test, ft_metrics, ld_vars, vz_vars >>

\* line 359
MainStop ==
    /\ pc = "stop"
    /\ pc' = "done"
    /\ UNCHANGED << error, data_file, test_file, train_data, test_data, results, now,
                    start_time, fit_end, training_time, train_pandas, test_pandas,
                    train_sentences, fasttext_model, X_train, y_train, X_test,
                    y_test, ft_metrics, ld_vars, vz_vars >>

Next ==
    \/ MainLoad
    \/ MainValidate
    \/ FtStart
    \/ FtPrepare
    \/ FtEmbed
    \/ FtVectorize
    \/ FtFit
    \/ FtPredict
    \/ FtReturn
    \/ MainRecord
    \/ MainReport
    \/ MainStop

Spec == Init /\ [][Next]_vars


(***************************************************************************)
(* Claims about load_qqp_data, checked under SpecLoad.                     *)
(***************************************************************************)
LoadDone == ld_result # Pending

\* reading or parsing fails: the path cannot be read, or a question column
\* that line 66 needs is not in the header
ReadOrParseFails(src) ==
    \/ ~src.readable
    \/ ~({"question1", "question2"} \subseteq src.columns)

\* C1: when reading or parsing the source fails, load_qqp_data raises nothing
\* and returns the sample dataset: exactly 3 records, labels 1.0, 0.0, 1.0 in
\* that order, every text non-empty.
C1_FallbackOnReadFailure ==
    (LoadDone /\ ReadOrParseFails(ld_source)) =>
        /\ ld_result.exc = "none"
        /\ Len(ld_result.data) = 3
        /\ ld_result.data[1].label = One
        /\ ld_result.data[2].label = Zero
        /\ ld_result.data[3].label = One
        /\ \A i \in 1..3 :
              /\ ld_result.data[i].text # NullText
              /\ Len(ld_result.data[i].text) > 0

C1_Witness ==
    /\ LoadDone
    /\ ~ld_source.readable
    /\ ld_result = Return(SampleData)

\* the source was read, has the columns the body needs, and no record is left
\* when line 72 counts them
ZeroRecordsRemain(src, is_test) == TryBody(src, is_test).exc = "ValueError"

\* C2 as stated: when a source is read and zero valid records remain, load
\* raises an error that reaches the caller and does not return the 3-record
\* sample dataset.
C2_EmptyDatasetReachesCaller ==
    (LoadDone /\ ZeroRecordsRemain(ld_source, ld_is_test)) =>
        /\ ld_result.exc = "ValueError"
        /\ ld_result.data # SampleData

\* C2 as amended: when a source is read and zero valid records remain, the
\* ValueError of line 74 is caught inside load_qqp_data, nothing reaches the
\* caller and the 3-record sample dataset is returned.
C2_EmptyDatasetFallsBack ==
    (LoadDone /\ ZeroRecordsRemain(ld_source, ld_is_test)) =>
        ld_result = Return(SampleData)

C2_Witness ==
    /\ LoadDone
    /\ ld_source.readable
    /\ ld_source.columns = {"question1", "question2", "is_duplicate"}
    /\ Len(ld_source.rows) = 2
    /\ ~ld_is_test
    /\ ZeroRecordsRemain(ld_source, ld_is_test)
    /\ ld_result = Return(SampleData)

\* the label's number is 0 or 1 (a string that reads as 0 or 1 is let pass)
ReadsAsZeroOrOne(cell) == LabelIsZeroOrOne(CastDouble(cell))

\* C3: for every source, whatever its header, and either value of is_test,
\* every record load_qqp_data returns has a label that is 0.0 or 1.0.
C3_LabelsZeroOrOne ==
    LoadDone =>
        \A i \in DOMAIN ld_result.data : ReadsAsZeroOrOne(ld_result.data[i].label)

\* a raw pair with both questions and is_duplicate "0" or "1"
ValidPair(r) ==
    /\ r.question1 # NullText
    /\ r.question2 # NullText
    /\ r.is_duplicate \in {Str(<< "0" >>), Str(<< "1" >>)}

\* the record the claim promises for a valid pair
RecordOf(r) ==
    [text |-> r.question1 \o << " ", "[", "S", "E", "P", "]", " " >> \o r.question2,
     label |-> IF r.is_duplicate = Str(<< "1" >>) THEN One ELSE Zero]

Occurrences(s, e) == Cardinality({i \in DOMAIN s : s[i] = e})

\* C4: with is_test false, every raw pair with non-null question1 and
\* question2 and is_duplicate "0" or "1" gives a record with the label's number
\* and the text question1 + " [SEP] " + question2, and none is dropped.
C4_ValidPairsKept ==
    (/\ LoadDone
     /\ ~ld_is_test
     /\ ld_source.readable
     /\ {"question1", "question2", "is_duplicate"} \subseteq ld_source.columns) =>
        LET valid == SelectSeq(ld_source.rows, ValidPair)
            want == [i \in DOMAIN valid |-> RecordOf(valid[i])]
        IN  /\ ld_result.exc = "none"
            /\ \A i \in DOMAIN want :
                  Occurrences(ld_result.data, want[i]) >= Occurrences(want, want[i])

C4_Witness ==
    /\ LoadDone
    /\ ~ld_is_test
    /\ ld_source.readable
    /\ Len(ld_source.rows) = 2
    /\ ValidPair(ld_source.rows[1])
    /\ ValidPair(ld_source.rows[2])
    /\ ld_source.rows[1].is_duplicate # ld_source.rows[2].is_duplicate
    /\ Len(ld_result.data) = 2
    /\ ld_result.data[1] = RecordOf(ld_source.rows[1])

\* C5 as stated: whenever is_test is true, every record of the returned
\* dataset has the placeholder label 0.0.
C5_EvalAlwaysPlaceholder ==
    (LoadDone /\ ld_is_test) =>
        \A i \in DOMAIN ld_result.data : ld_result.data[i].label = Zero

\* C5 as amended: whenever is_test is true and the source is read, has both
\* question columns and at least one row, every row gives a record and every
\* record has the placeholder label 0.0, whatever is_duplicate holds; in the
\* other cases the sample dataset, with labels 1.0, 0.0, 1.0, is returned.
C5_EvalPlaceholderUnlessFallback ==
    (LoadDone /\ ld_is_test) =>
        IF ~ReadOrParseFails(ld_source) /\ Len(ld_source.rows) > 0
        THEN /\ Len(ld_result.data) = Len(ld_source.rows)
             /\ \A i \in DOMAIN ld_result.data : ld_result.data[i].label = Zero
        ELSE ld_result = Return(SampleData)

C5_Witness ==
    /\ LoadDone
    /\ ld_is_test
    /\ ld_source.readable
    /\ "is_duplicate" \in ld_source.columns
    /\ Len(ld_source.rows) = 2
    /\ ld_source.rows[1].is_duplicate = Str(<< "1" >>)
    /\ Len(ld_result.data) = 2
    /\ ld_result.data[1].label = Zero

(***************************************************************************)
(* Claims about text_to_vector, checked under SpecVec.                     *)
(***************************************************************************)
VecDone == vz_result # NoVector

\* the tokens of a text that are words of the model's vocabulary
VocabularyTokens(text, model) ==
    LET InVocabulary(w) == w \in model.key_to_index
    IN  SelectSeq(preprocess_text(text), InVocabulary)

\* a feature vector that is zero whatever the rows of the model hold
IsZeroVector(v) ==
    \A i \in DOMAIN v.mean_of :
        v.mean_of[i].vocab_rows = << >> /\ v.mean_of[i].ngram_rows = << >>

\* two feature vectors hold the same numbers whatever the rows of the model
\* hold
SameVector(u, v) ==
    /\ u.dim = v.dim
    /\ (IsZeroVector(u) /\ IsZeroVector(v)) \/ u.mean_of = v.mean_of

\* C8: text_to_vector returns the zero vector of the model's dimension when
\* no token of the text is in the model's vocabulary (empty text, a text that
\* is no string, only out-of-vocabulary tokens), and otherwise the
\* element-wise mean over the in-vocabulary tokens only.
C8_ZeroVectorWithoutVocabularyToken ==
    VecDone =>
        LET known == VocabularyTokens(vz_text, vz_model)
        IN  IF Len(known) = 0
            THEN vz_result.dim = vz_model.vector_size /\ IsZeroVector(vz_result)
            ELSE SameVector(vz_result,
                            np_mean([i \in DOMAIN known |-> vz_model.vectors[known[i]]]))

(***************************************************************************)
(* Claims about main and train_fasttext, checked under Spec.               *)
(***************************************************************************)
\* the Trainer or the Evaluator has failed on an empty feature set or on
\* features and labels of different lengths
InvalidInputFailure ==
    \/ error = "predict"
    \/ error = "fit" /\ (Len(X_train) = 0 \/ Len(X_train) # Len(y_train))

\* C6: when the variant's Trainer or Evaluator step fails with InvalidInput,
\* the run does not throw: the runner goes on and the table keeps its entries.
C6_RunSurvivesInvalidInput ==
    InvalidInputFailure => pc # "threw"

\* the positions of a run at which line 140 has been executed
SentencesBuilt ==
    \/ pc \in {"ft_vectorize", "ft_fit", "ft_predict", "ft_return", "record",
               "report", "stop", "done"}
    \/ pc = "threw" /\ error \in {"FastText", "fit", "predict", "score"}

\* what a run on training file d and evaluation file t has when it reaches
\* line 140
FramesOfRun(d, t) ==
    LET loaded == Validate(load_qqp_data(d, FALSE).data, load_qqp_data(t, FALSE).data)
    IN  Prepare(loaded.train, loaded.test)

SentencesOfRun(d, t) == TrainSentences(FramesOfRun(d, t).train, FramesOfRun(d, t).test)

\* the sentences line 140 builds and the evaluation frame it leaves alone,
\* for every training file d and evaluation file t of a run
RunTable ==
    [d \in MainSources |->
        [t \in MainSources |->
            [exc |-> FramesOfRun(d, t).exc,
             sentences |-> SentencesOfRun(d, t),
             test |-> FramesOfRun(d, t).test]]]

\* C7: the embedding model is a function of the training text only: a run
\* with the same training file and any other evaluation file hands FastText
\* the same sentences, and the model's vocabulary is the tokens of these.
C7_NoEvaluationTextInEmbedding ==
    SentencesBuilt =>
        /\ \A t \in MainSources :
              RunTable[data_file][t].exc = "none" =>
                  RunTable[data_file][t].sentences = train_sentences
        /\ fasttext_model # NoModel =>
              fasttext_model.key_to_index =
                  Vocabulary([i \in DOMAIN train_pandas |->
                                 preprocess_text(train_pandas[i].text)])

C7_Witness ==
    /\ pc = "ft_fit"
    /\ Len(train_sentences) > 0
    /\ Len(test_pandas) > 0
    /\ \E i \in DOMAIN test_pandas :
          \A j \in DOMAIN train_pandas : test_pandas[i].text # train_pandas[j].text
    /\ \E t \in MainSources :
          /\ t # test_file
          /\ RunTable[data_file][t].exc = "none"
          /\ RunTable[data_file][t].test # test_pandas

Returned == pc \in {"record", "report", "stop", "done"}

\* C9: the training timer stops when fit completes, before the evaluation
\* step begins: the recorded training time holds no time spent predicting on
\* or scoring the evaluation set.
C9_TrainingTimeExcludesEvaluation ==
    Returned => training_time = fit_end - start_time

Recorded == pc \in {"report", "stop", "done"}

TableColumns(t) ==
    << t.Model, t.Accuracy, t.Precision, t.Recall, t.F1, t.TrainingTime >>

C10_Table ==
    /\ \A i \in 1..6 : Len(TableColumns(results)[i]) = Len(results.Model)
    /\ Len(results.Model) = IF Recorded THEN 1 ELSE 0
    /\ Recorded =>
          /\ ft_metrics # NoMetrics
          /\ results.Model = << "FastText" >>
          /\ results.Accuracy = << ft_metrics[1] >>
          /\ results.Precision = << ft_metrics[2] >>
          /\ results.Recall = << ft_metrics[3] >>
          /\ results.F1 = << ft_metrics[4] >>
          /\ results.TrainingTime = << training_time >>

C10_ReadOnlyOnceReported == Recorded => results' = results

\* C10: at every point of a run the results table, empty at the start, holds
\* one entry per variant that has reached RECORD, in evaluation order; the
\* entry is appended after the variant's evaluation, all six fields together,
\* so the columns have equal lengths; the table is not written once it is
\* with the reporter.
C10_ComparisonTable ==
    /\ []C10_Table
    /\ [][C10_ReadOnlyOnceReported]_vars

C10_Witness ==
    /\ pc = "done"
    /\ Len(results.Model) = 1
    /\ results.TrainingTime = << training_time >>
====
